---- MODULE Spec2Model ----
(***************************************************************************)
(* State-machine model of the whisper N-API addon                          *)
(* (packages/whisper-wrapper/addon/addon.cpp): the exported operations     *)
(* init / full / free, the External finalizer installed by wrap_handle,    *)
(* and the pure option translation parse_full_params.                      *)
(*                                                                         *)
(* Callers are threads 1..NumThreads that may be inside the exported       *)
(* functions at the same time (the case WhisperHandle::mutex exists for);  *)
(* the finalizer runs on its own thread, and only once the External is no  *)
(* longer referenced, so never while a call naming the handle is in        *)
(* flight.  A WhisperHandle is {mutex, ctx, freed}; handle h, once         *)
(* created, owns engine context h.  The engine (whisper.h) is a black box: *)
(* only the fact that a primitive was invoked, and on which context, is    *)
(* recorded.  Reads and writes of one handle made without an intervening   *)
(* lock operation are taken in one step: the only unlocked access is the   *)
(* read of line 397, and reading freed and ctx one at a time against the   *)
(* writes of lines 290-291 yields no outcome the one-step read does not.   *)
(*                                                                         *)
(* Spec is the concurrent system.  ParamSpec follows one full call from    *)
(* its options object to the configuration the engine receives, over a     *)
(* wider set of run configurations.                                        *)
(***************************************************************************)
EXTENDS Integers, Sequences, FiniteSets, TLC

\* ------------------------------------------------------------------ bounds
NumThreads == 2
NumHandles == 2

Threads == 1..NumThreads
Handles == 1..NumHandles
FinalizerThread == NumThreads + 1

NULL == 0

\* Longest string drawn for a string-valued option.
MaxStrLen == 2

\* ------------------------------------------------------- JavaScript values
\* A property value: absent, a string (sequence of characters), a number,
\* a Float32Array of n elements, or some other value (null, boolean, ...).
Absent == [t |-> "absent", s |-> <<>>, n |-> 0]
Other == [t |-> "other", s |-> <<>>, n |-> 0]
Str(x) == [t |-> "string", s |-> x, n |-> 0]
Num(k) == [t |-> "number", s |-> <<>>, n |-> k]
F32(k) == [t |-> "typedarray", s |-> <<>>, n |-> k]

Has(o, k) == o[k].t # "absent"
IsString(v) == v.t = "string"
IsTypedArray(v) == v.t = "typedarray"

AUTO == <<"a", "u", "t", "o">>

\* An argument that is not an object (or is missing altogether).
NoOptions ==
  [obj |-> FALSE, model |-> Absent, audio |-> Absent, fname_inp |-> Absent,
   language |-> Absent, initial_prompt |-> Absent, prompt |-> Absent,
   strategy |-> Absent, beam_size |-> Absent, format |-> Absent]

EmptyObject == [NoOptions EXCEPT !.obj = TRUE]

InitArgs ==
  {NoOptions} \cup
  {[EmptyObject EXCEPT !.model = m] : m \in {Absent, Other, Str(<<"m">>)}}

FullArgs ==
  {NoOptions} \cup
  {[EmptyObject EXCEPT !.audio = a, !.fname_inp = f] :
     a \in {Absent, Other, F32(0), F32(1)},
     f \in {Absent, Other, Str(<<"f">>)}}

\* The character U+0000, which a JavaScript string may hold anywhere.
NUL == "NUL"

\* Strings of at most MaxStrLen characters over a letter and NUL.
RECURSIVE StringsOfLen(_)
StringsOfLen(k) ==
  IF k = 0 THEN {<<>>}
  ELSE {Append(x, c) : x \in StringsOfLen(k - 1), c \in {"e", NUL}}
Strings == UNION {StringsOfLen(k) : k \in 0..MaxStrLen}

\* Run configurations for the option translation, audio being supplied.
ParamArgs ==
  {[EmptyObject EXCEPT !.audio = F32(1), !.language = l, !.initial_prompt = i,
                       !.prompt = p, !.strategy = g, !.beam_size = b,
                       !.format = f] :
     l \in {Absent, Other, Str(AUTO)} \cup {Str(x) : x \in Strings},
     i \in {Absent, Other, Str(<<>>), Str(<<"i">>)},
     p \in {Absent, Other, Str(<<>>), Str(<<"p">>)},
     g \in {Absent, Num(0), Num(1)},
     b \in {Absent, Num(0), Num(1), Num(2)},
     f \in {Absent, Other, Str(<<"d", "e", "t", "a", "i", "l">>),
            Str(<<"D", "E", "T", "A", "I", "L">>),
            Str(<<"D", "e", "t", "a", "i", "l">>), Str(<<"t", "e", "x", "t">>)}}

\* ------------------------------------------------------------ error texts
ErrInitArgs == "Expected init options object"
ErrModel == "Missing 'model' path"
ErrInit == "Failed to initialize whisper context"
ErrArgs == "Expected arguments (handle, options)"
ErrHandle == "Invalid context handle"
ErrFreed == "Model has been freed"
ErrNoAudio == "No audio provided (audio buffer or fname_inp required)"
ErrRead == "Failed to read input audio file"
ErrDecode == "whisper_full_parallel failed"

\* Thrown as Napi::TypeError; the others as Napi::Error.
CallerErrors == {ErrInitArgs, ErrModel, ErrArgs, ErrHandle}

\* Status codes the decode primitive may return.
Statuses == {0 - 1, 0, 1}

VARIABLES
  pc,       \* pc[t]: position of caller t
  th,       \* th[t]: the handle argument of t's call (NULL: not an External)
  opts,     \* opts[t]: the options argument of t's call
  pcm,      \* pcm[t]: pcmf32 of t's full call: "none", "buffer" or "file"
  cfg,      \* cfg[t]: the FullParamConfig of t's full call
  ctxArg,   \* ctxArg[t]: the context pointer t handed to the engine
  result,   \* result[t]: what whisper_full_parallel returned to t
  did,      \* did[t]: primitives t's call has invoked so far
  ret,      \* ret[t]: what t's last call returned or threw, and the primitives
            \* it had invoked
  obj,      \* obj[h]: the WhisperHandle object: "none", "live", "deleted"
  ctx,      \* ctx[h]: WhisperHandle::ctx
  freed,    \* freed[h]: WhisperHandle::freed
  mutex,    \* mutex[h]: owner of WhisperHandle::mutex (0: unlocked)
  reach,    \* reach[h]: the External wrapping h is still referenced
  fin,      \* fin[h]: position of the finalizer of h
  engine,   \* engine[c]: engine context c: "unloaded", "loaded", "released"
  nfree,    \* nfree[c]: number of whisper_free calls on context c
  crashed,  \* the process has crashed
  pstage,   \* option translation on its own: "off", "input", "parsed", "engine"
  popts,    \* the options object being translated
  pcfg,     \* the FullParamConfig it yields
  sstage,   \* build_segments on its own: "off", "input", "loop", "emit",
            \* "store", "returned"
  sopts,    \* the options object of the call whose result is built
  scfg,     \* the FullParamConfig build_segments is handed
  n_segments, \* whisper_full_n_segments(ctx)
  seg_i,    \* i of the loop of line 307
  etokens,  \* the token data read from the engine for segment i
  segment,  \* SegmentData segment of the iteration
  jsSegment, \* the object built from it (lines 358-382)
  segments  \* the array returned: per element, the names of the fields set

tvars == <<pc, th, opts, pcm, cfg, ctxArg, result, did, ret>>
hvars == <<obj, ctx, freed, mutex, reach, fin>>
evars == <<engine, nfree>>
pvars == <<pstage, popts, pcfg>>
svars == <<sstage, sopts, scfg, n_segments, seg_i, etokens, segment, jsSegment,
           segments>>
vars == <<pc, th, opts, pcm, cfg, ctxArg, result, did, ret, obj, ctx, freed,
          mutex, reach, fin, engine, nfree, crashed, pstage, popts, pcfg,
          sstage, sopts, scfg, n_segments, seg_i, etokens, segment, jsSegment,
          segments>>

\* ------------------------------------------------------ parse_full_params
GREEDY == 0
BEAM_SEARCH == 1

\* A FullParamConfig before parse_full_params has filled it.
NoConfig ==
  [strategy |-> GREEDY, beam_size |-> 0 - 1, initial_prompt |-> <<>>,
   language |-> <<>>, params_language |-> <<>>, detailed |-> FALSE]

\* if (cfg.language.empty()) cfg.language = "auto";
default_language(l) == IF l = <<>> THEN AUTO ELSE l

\* ::tolower on one character, std::transform over the string.
UpperCase == <<"A", "B", "C", "D", "E", "F", "G", "H", "I", "J", "K", "L", "M",
               "N", "O", "P", "Q", "R", "S", "T", "U", "V", "W", "X", "Y", "Z">>
LowerCase == <<"a", "b", "c", "d", "e", "f", "g", "h", "i", "j", "k", "l", "m",
               "n", "o", "p", "q", "r", "s", "t", "u", "v", "w", "x", "y", "z">>
tolower(c) ==
  IF \E i \in 1..Len(UpperCase) : UpperCase[i] = c
    THEN LowerCase[CHOOSE i \in 1..Len(UpperCase) : UpperCase[i] = c]
    ELSE c
transform_tolower(str) == [i \in 1..Len(str) |-> tolower(str[i])]

DETAIL == <<"d", "e", "t", "a", "i", "l">>

\* Napi::Number::Int32Value(): the numbers drawn are integers within the
\* 32-bit range, which it returns as they are.
Int32Value(v) == v.n

\* Mutant of beam_strategy: an explicitly supplied strategy is not overridden.
beam_strategy_explicit_wins(o, strategy0) ==
  IF Has(o, "beam_size") /\ Int32Value(o.beam_size) > 1 /\ ~Has(o, "strategy")
    THEN BEAM_SEARCH ELSE strategy0

\* Lines 172-177: cfg.params.strategy after the beam_size block, strategy0
\* being what lines 51-56 left there.
beam_strategy(o, strategy0) ==
  IF Has(o, "beam_size") /\ Int32Value(o.beam_size) > 1
    THEN BEAM_SEARCH ELSE strategy0

\* Mutant of prompt_fallback: prompt replaces initial_prompt whenever it is
\* a string.
prompt_fallback_always(o, initial0) ==
  IF Has(o, "prompt") /\ IsString(o.prompt) THEN o.prompt.s ELSE initial0

\* Lines 179-181: cfg.initial_prompt after the prompt block, initial0 being
\* what lines 129-131 left there.
prompt_fallback(o, initial0) ==
  IF Has(o, "prompt") /\ IsString(o.prompt) /\ initial0 = <<>>
    THEN o.prompt.s ELSE initial0

\* parse_full_params, for the options the model carries; every other key
\* is copied into cfg.params one to one and is left out.
parse_full_params(o) ==
  LET strategy0 == IF Has(o, "strategy") THEN Int32Value(o.strategy) ELSE GREEDY
      initial0 == IF Has(o, "initial_prompt") /\ IsString(o.initial_prompt)
                    THEN o.initial_prompt.s ELSE <<>>
      language0 == IF Has(o, "language") /\ IsString(o.language)
                     THEN o.language.s ELSE AUTO
      beam == IF Has(o, "beam_size") THEN Int32Value(o.beam_size)
              ELSE NoConfig.beam_size
      strategy1 == beam_strategy(o, strategy0)
      initial1 == prompt_fallback(o, initial0)
      detailed == IF Has(o, "format") /\ IsString(o.format)
                    THEN transform_tolower(o.format.s) = DETAIL ELSE FALSE
  IN [strategy |-> strategy1, beam_size |-> beam, initial_prompt |-> initial1,
      language |-> default_language(language0),
      params_language |-> NoConfig.params_language, detailed |-> detailed]

\* std::string::c_str() as the engine reads it: the characters before the
\* first NUL.
RECURSIVE c_str(_)
c_str(str) ==
  IF str = <<>> \/ Head(str) = NUL THEN <<>>
  ELSE <<Head(str)>> \o c_str(Tail(str))

\* full_transcribe, lines 416-422: the configuration handed to the engine,
\* c being what parse_full_params returned.
engine_config(c) ==
  LET l == default_language(c.language)
  IN [c EXCEPT !.language = l, !.params_language = c_str(l)]

\* ---------------------------------------------------------------- helpers
\* A context pointer the engine may be called with.
ValidCtx(c) == c # NULL /\ engine[c] = "loaded"

\* Mutant of lock_guard: the lock excludes nobody.
lock_guard_none(h) == TRUE

\* Mutant of lock_guard: one lock shared by all handles.
lock_guard_global(h) == \A g \in Handles : mutex[g] = 0

\* std::lock_guard<std::mutex> guard(handle->mutex): may proceed when the
\* handle's own mutex is unlocked.
lock_guard(h) == mutex[h] = 0

NoRet == [val |-> "none", did |-> {}]

\* Every return path: the call of t is over; r is what it returned or
\* threw, d the primitives it invoked.
Return(t, r, d) ==
  /\ pc' = [pc EXCEPT ![t] = "idle"]
  /\ th' = [th EXCEPT ![t] = NULL]
  /\ opts' = [opts EXCEPT ![t] = NoOptions]
  /\ pcm' = [pcm EXCEPT ![t] = "none"]
  /\ cfg' = [cfg EXCEPT ![t] = NoConfig]
  /\ ctxArg' = [ctxArg EXCEPT ![t] = NULL]
  /\ result' = [result EXCEPT ![t] = 0]
  /\ did' = [did EXCEPT ![t] = {}]
  /\ ret' = [ret EXCEPT ![t] = [val |-> r, did |-> d]]

\* A new call starts on thread t.
Call(t, start, h, o) ==
  /\ ~crashed
  /\ UNCHANGED <<pvars, svars>>
  /\ pc[t] = "idle"
  /\ pc' = [pc EXCEPT ![t] = start]
  /\ th' = [th EXCEPT ![t] = h]
  /\ opts' = [opts EXCEPT ![t] = o]
  /\ ret' = [ret EXCEPT ![t] = NoRet]
  /\ UNCHANGED <<pcm, cfg, ctxArg, result, did, hvars, evars, crashed>>

\* Handles a caller can name: the External is still referenced.
Callable == {h \in Handles : obj[h] = "live" /\ reach[h]}

InitHandles ==
  /\ pc = [t \in Threads |-> "idle"]
  /\ th = [t \in Threads |-> NULL]
  /\ opts = [t \in Threads |-> NoOptions]
  /\ pcm = [t \in Threads |-> "none"]
  /\ cfg = [t \in Threads |-> NoConfig]
  /\ ctxArg = [t \in Threads |-> NULL]
  /\ result = [t \in Threads |-> 0]
  /\ did = [t \in Threads |-> {}]
  /\ ret = [t \in Threads |-> NoRet]
  /\ obj = [h \in Handles |-> "none"]
  /\ ctx = [h \in Handles |-> NULL]
  /\ freed = [h \in Handles |-> FALSE]
  /\ mutex = [h \in Handles |-> 0]
  /\ reach = [h \in Handles |-> FALSE]
  /\ fin = [h \in Handles |-> "none"]
  /\ engine = [c \in Handles |-> "unloaded"]
  /\ nfree = [c \in Handles |-> 0]
  /\ crashed = FALSE

\* Option translation not running on its own.
ParamOff ==
  /\ pstage = "off"
  /\ popts = NoOptions
  /\ pcfg = NoConfig

\* --------------------------------------------------------- build_segments
MaxSegments == 2
MaxTokens == 4

\* whisper_token_eot(ctx) of the loaded model.
EOT == 1

\* token.p on a fixed-point grid: p stands for p / ProbScale, in [0, 1].
ProbScale == 2
Probs == 0..ProbScale

\* whisper_token_data as far as build_segments reads it (id and p; text and
\* the timestamps are copied through and left out).
Tokens == [id : {EOT, EOT + 1}, p : Probs]

RECURSIVE TokenListsOfLen(_)
TokenListsOfLen(k) ==
  IF k = 0 THEN {<<>>}
  ELSE {Append(x, tok) : x \in TokenListsOfLen(k - 1), tok \in Tokens}
TokenLists == UNION {TokenListsOfLen(k) : k \in 0..MaxTokens}

\* Run configurations for result building: what format may be.
SegArgs ==
  {[EmptyObject EXCEPT !.audio = F32(1), !.format = f] :
     f \in {Absent, Other, Str(DETAIL),
            Str(<<"D", "E", "T", "A", "I", "L">>),
            Str(<<"D", "e", "t", "a", "i", "L">>),
            Str(<<"d", "e", "t", "a", "i", "l", "s">>),
            Str(<<"t", "e", "x", "t">>), Str(<<>>)}}

\* A float quotient num / den, kept exact.
Quotient(num, den) == [num |-> num, den |-> den]

\* SegmentData as declared (lines 31-38): confidence = 0.0f, no tokens.
NoSegment == [confidence |-> Quotient(0, 1), tokens |-> <<>>]

\* No object built in this iteration yet.
NoObject == [set |-> {}, confidence |-> Quotient(0, 1), tokens |-> <<>>]

\* Result building not running on its own.
SegOff ==
  /\ sstage = "off"
  /\ sopts = NoOptions
  /\ scfg = NoConfig
  /\ n_segments = 0
  /\ seg_i = 0
  /\ etokens = <<>>
  /\ segment = NoSegment
  /\ jsSegment = NoObject
  /\ segments = <<>>

min(a, b) == IF b < a THEN b ELSE a
max(a, b) == IF a < b THEN b ELSE a

\* Mutant of token_skipped: the end-of-text token itself is skipped too.
token_skipped_eot(token) == token.id >= EOT

\* if (token.id > whisper_token_eot(ctx)) continue;
token_skipped(token) == token.id > EOT

\* Lines 317-320: the accumulators before the token loop.
NoTokensSeen ==
  [tokens |-> <<>>, confidence_sum |-> 0, min_p |-> ProbScale, max_p |-> 0,
   valid_tokens |-> 0]

\* Lines 322-344: the token loop from index j on.
RECURSIVE token_loop(_, _, _)
token_loop(toks, j, acc) ==
  IF j > Len(toks) THEN acc
  ELSE LET token == toks[j]
           pushed == [acc EXCEPT !.tokens = Append(@, token)]
       IN IF token_skipped(token) THEN token_loop(toks, j + 1, pushed)
          ELSE token_loop(toks, j + 1,
                 [pushed EXCEPT !.confidence_sum = @ + token.p,
                                !.min_p = min(@, token.p),
                                !.max_p = max(@, token.p),
                                !.valid_tokens = @ + 1])

\* Lines 346-353.
segment_confidence(acc) ==
  IF acc.valid_tokens > 2
    THEN Quotient(acc.confidence_sum - acc.min_p - acc.max_p,
                  acc.valid_tokens - 2)
  ELSE IF acc.valid_tokens > 0
    THEN Quotient(acc.confidence_sum, acc.valid_tokens)
  ELSE Quotient(0, 1)

\* Lines 308-356: SegmentData of one iteration.
segment_data(c, toks) ==
  IF c.detailed
    THEN LET acc == token_loop(toks, 1, NoTokensSeen)
         IN [confidence |-> segment_confidence(acc), tokens |-> acc.tokens]
    ELSE NoSegment

\* Mutant of js_segment: lang, confidence and tokens are always set.
js_segment_always(c, sd) ==
  [set |-> {"from", "to", "text", "lang", "confidence", "tokens"},
   confidence |-> sd.confidence, tokens |-> sd.tokens]

\* Lines 358-382: the object for one segment.
js_segment(c, sd) ==
  IF c.detailed
    THEN [set |-> {"from", "to", "text", "lang", "confidence", "tokens"},
          confidence |-> sd.confidence, tokens |-> sd.tokens]
    ELSE [NoObject EXCEPT !.set = {"from", "to", "text"}]

SegInit ==
  /\ InitHandles
  /\ ParamOff
  /\ sstage = "input"
  /\ sopts \in SegArgs
  /\ scfg = NoConfig
  /\ n_segments = 0
  /\ seg_i = 0
  /\ etokens = <<>>
  /\ segment = NoSegment
  /\ jsSegment = NoObject
  /\ segments = <<>>

\* Lines 416 and 302-303: the configuration is parsed, the decode has left n
\* segments in the context, and build_segments starts.
BuildStart ==
  /\ sstage = "input"
  /\ scfg' = parse_full_params(sopts)
  /\ \E n \in 0..MaxSegments : n_segments' = n
  /\ seg_i' = 0
  /\ segments' = <<>>
  /\ sstage' = "loop"
  /\ UNCHANGED <<sopts, etokens, segment, jsSegment>>
  /\ UNCHANGED <<tvars, hvars, evars, crashed, pvars>>

\* Lines 307-356: one iteration up to the filled SegmentData; toks is what
\* the engine holds for segment i, which is read only for detailed output.
BuildSegment ==
  /\ sstage = "loop"
  /\ seg_i < n_segments
  /\ \E toks \in IF scfg.detailed THEN TokenLists ELSE {<<>>} :
       /\ etokens' = toks
       /\ segment' = segment_data(scfg, toks)
  /\ sstage' = "emit"
  /\ UNCHANGED <<sopts, scfg, n_segments, seg_i, jsSegment, segments>>
  /\ UNCHANGED <<tvars, hvars, evars, crashed, pvars>>

\* Lines 358-382: the object of the segment is built.
BuildObject ==
  /\ sstage = "emit"
  /\ jsSegment' = js_segment(scfg, segment)
  /\ sstage' = "store"
  /\ UNCHANGED <<sopts, scfg, n_segments, seg_i, etokens, segment, segments>>
  /\ UNCHANGED <<tvars, hvars, evars, crashed, pvars>>

\* Lines 384-385: the object is stored, the iteration ends and its locals
\* with it, ++i.
BuildStore ==
  /\ sstage = "store"
  /\ segments' = Append(segments, jsSegment.set)
  /\ seg_i' = seg_i + 1
  /\ etokens' = <<>>
  /\ segment' = NoSegment
  /\ jsSegment' = NoObject
  /\ sstage' = "loop"
  /\ UNCHANGED <<sopts, scfg, n_segments>>
  /\ UNCHANGED <<tvars, hvars, evars, crashed, pvars>>

\* Line 387.
BuildReturn ==
  /\ sstage = "loop"
  /\ seg_i >= n_segments
  /\ sstage' = "returned"
  /\ UNCHANGED <<sopts, scfg, n_segments, seg_i, etokens, segment, jsSegment,
                 segments>>
  /\ UNCHANGED <<tvars, hvars, evars, crashed, pvars>>

SegNext ==
  BuildStart \/ BuildSegment \/ BuildObject \/ BuildStore \/ BuildReturn

SegSpec == SegInit /\ [][SegNext]_vars

Init ==
  /\ InitHandles
  /\ ParamOff
  /\ SegOff

\* ------------------------------------------------------------------- init
\* Mutant of ModelArgOk: presence is checked, the type is not.
ModelArgOk_present(o) == Has(o, "model")

\* if (!options.Has("model") || !options.Get("model").IsString()) throw
ModelArgOk(o) == Has(o, "model") /\ IsString(o.model)

FreeSlots == {h \in Handles : obj[h] = "none"}
NextSlot == CHOOSE h \in FreeSlots : \A g \in FreeSlots : h <= g

InitCall(t) ==
  /\ pc[t] = "idle"
  /\ \E o \in InitArgs : Call(t, "init", NULL, o)

\* init_model, whole body.  loadOk: whether whisper_init_from_file_with_params
\* returns a context.
InitModel(t) ==
  /\ ~crashed
  /\ UNCHANGED <<pvars, svars>>
  /\ pc[t] = "init"
  /\ UNCHANGED <<freed, mutex, fin, nfree, crashed>>
  /\ IF ~opts[t].obj
       THEN /\ Return(t, ErrInitArgs, {})
            /\ UNCHANGED <<obj, ctx, reach, engine>>
     ELSE IF ~ModelArgOk(opts[t])
       THEN /\ Return(t, ErrModel, {})
            /\ UNCHANGED <<obj, ctx, reach, engine>>
     ELSE
       \E loadOk \in BOOLEAN :
         IF ~loadOk
           THEN /\ Return(t, ErrInit, {"load"})
                /\ UNCHANGED <<obj, ctx, reach, engine>>
           ELSE /\ FreeSlots # {}
                /\ LET h == NextSlot IN
                     /\ engine' = [engine EXCEPT ![h] = "loaded"]
                     /\ obj' = [obj EXCEPT ![h] = "live"]
                     /\ ctx' = [ctx EXCEPT ![h] = h]
                     /\ reach' = [reach EXCEPT ![h] = TRUE]
                     /\ Return(t, "handle", {"load"})

\* ------------------------------------------------------------------- free
\* Mutant of release_if_live: the context is released but the handle is not
\* marked.
release_if_live_unmarked(h) ==
  IF ctx[h] # NULL
    THEN [ctx |-> ctx[h], freed |-> freed[h], released |-> TRUE]
    ELSE [ctx |-> ctx[h], freed |-> freed[h], released |-> FALSE]

\* Mutant of release_if_live: the flag is toggled on every call instead of
\* being set.
release_if_live_toggle(h) ==
  IF ~freed[h] /\ ctx[h] # NULL
    THEN [ctx |-> NULL, freed |-> ~freed[h], released |-> TRUE]
    ELSE [ctx |-> ctx[h], freed |-> ~freed[h], released |-> FALSE]

\* Mutant of release_if_live: the handle is marked but keeps its pointer.
release_if_live_dangling(h) ==
  IF ~freed[h] /\ ctx[h] # NULL
    THEN [ctx |-> ctx[h], freed |-> TRUE, released |-> TRUE]
    ELSE [ctx |-> ctx[h], freed |-> freed[h], released |-> FALSE]

\* free_model, lines 288-292: what the guarded block leaves in the handle
\* and whether it called whisper_free.
release_if_live(h) ==
  IF ~freed[h] /\ ctx[h] # NULL
    THEN [ctx |-> NULL, freed |-> TRUE, released |-> TRUE]
    ELSE [ctx |-> ctx[h], freed |-> freed[h], released |-> FALSE]

\* Mutant of finalizer_release: the finalizer only deletes the handle.
finalizer_release_never(h) ==
  [ctx |-> ctx[h], freed |-> freed[h], released |-> FALSE]

\* The External finalizer, lines 207-211.
finalizer_release(h) ==
  IF ~freed[h] /\ ctx[h] # NULL
    THEN [ctx |-> NULL, freed |-> TRUE, released |-> TRUE]
    ELSE [ctx |-> ctx[h], freed |-> freed[h], released |-> FALSE]

\* whisper_free(c) as seen by the engine.
WhisperFree(c) ==
  /\ engine' = [engine EXCEPT ![c] = "released"]
  /\ nfree' = [nfree EXCEPT ![c] = IF @ < 2 THEN @ + 1 ELSE @]

FreeCall(t) ==
  /\ pc[t] = "idle"
  /\ \E h \in Callable \cup {NULL} : Call(t, "free_entry", h, NoOptions)

\* unwrap_handle, then the lock_guard of line 287.
FreeLock(t) ==
  /\ ~crashed
  /\ UNCHANGED <<pvars, svars>>
  /\ pc[t] = "free_entry"
  /\ UNCHANGED <<obj, ctx, freed, reach, fin, evars, crashed>>
  /\ IF th[t] = NULL
       THEN /\ Return(t, ErrHandle, {})
            /\ UNCHANGED mutex
       ELSE /\ lock_guard(th[t])
            /\ mutex' = [mutex EXCEPT ![th[t]] = t]
            /\ did' = [did EXCEPT ![t] = @ \cup {"lock"}]
            /\ pc' = [pc EXCEPT ![t] = "free_cs"]
            /\ UNCHANGED <<th, opts, pcm, cfg, ctxArg, result, ret>>

FreeRelease(t) ==
  /\ ~crashed
  /\ UNCHANGED <<pvars, svars>>
  /\ pc[t] = "free_cs"
  /\ LET h == th[t]
         r == release_if_live(h)
     IN /\ ctx' = [ctx EXCEPT ![h] = r.ctx]
        /\ freed' = [freed EXCEPT ![h] = r.freed]
        /\ IF r.released
             THEN /\ WhisperFree(ctx[h])
                  /\ did' = [did EXCEPT ![t] = @ \cup {"whisper_free"}]
             ELSE UNCHANGED <<evars, did>>
  /\ pc' = [pc EXCEPT ![t] = "free_exit"]
  /\ UNCHANGED <<th, opts, pcm, cfg, ctxArg, result, ret, obj, mutex, reach, fin,
               crashed>>

\* return env.Undefined(); the guard's destructor unlocks.
FreeReturn(t) ==
  /\ ~crashed
  /\ UNCHANGED <<pvars, svars>>
  /\ pc[t] = "free_exit"
  /\ mutex' = [mutex EXCEPT ![th[t]] = 0]
  /\ Return(t, "undefined", did[t])
  /\ UNCHANGED <<obj, ctx, freed, reach, fin, evars, crashed>>

\* ------------------------------------------------------------------- full
\* Number of samples extract_audio returns.
extract_audio(o) ==
  IF Has(o, "audio") /\ IsTypedArray(o.audio) THEN o.audio.n ELSE 0

extract_files(o) ==
  IF Has(o, "fname_inp") /\ IsString(o.fname_inp) THEN <<o.fname_inp.s>> ELSE <<>>

\* Mutant of resolve_audio: the file is read before the check that there is
\* one.
resolve_audio_read_first(o, readOk) ==
  IF extract_audio(o) # 0
    THEN [err |-> "none", pcm |-> "buffer", did |-> {}]
  ELSE IF extract_files(o) = <<>>
    THEN [err |-> ErrNoAudio, pcm |-> "none", did |-> {"read_audio"}]
  ELSE IF ~readOk
    THEN [err |-> ErrRead, pcm |-> "none", did |-> {"read_audio"}]
  ELSE [err |-> "none", pcm |-> "file", did |-> {"read_audio"}]

\* full_transcribe, lines 403-414.  readOk: what read_audio_data would
\* return for files[0].
resolve_audio(o, readOk) ==
  IF extract_audio(o) # 0
    THEN [err |-> "none", pcm |-> "buffer", did |-> {}]
  ELSE IF extract_files(o) = <<>>
    THEN [err |-> ErrNoAudio, pcm |-> "none", did |-> {}]
  ELSE IF ~readOk
    THEN [err |-> ErrRead, pcm |-> "none", did |-> {"read_audio"}]
  ELSE [err |-> "none", pcm |-> "file", did |-> {"read_audio"}]

\* if (handle->freed || handle->ctx == nullptr)
freed_check(h) == freed[h] \/ ctx[h] = NULL

\* Mutant of decode_failed: only negative statuses count as failures.
decode_failed_negative(status) == status < 0

\* if (result != 0)
decode_failed(status) == status # 0

FullCall(t) ==
  /\ pc[t] = "idle"
  /\ \E h \in Callable \cup {NULL}, o \in FullArgs : Call(t, "full_entry", h, o)

\* Lines 391-399: argument shape, unwrap_handle, the freed check.
FullCheck(t) ==
  /\ ~crashed
  /\ UNCHANGED <<pvars, svars>>
  /\ pc[t] = "full_entry"
  /\ UNCHANGED <<hvars, evars, crashed>>
  /\ IF ~opts[t].obj THEN Return(t, ErrArgs, {})
     ELSE IF th[t] = NULL THEN Return(t, ErrHandle, {})
     ELSE IF freed_check(th[t]) THEN Return(t, ErrFreed, {})
     ELSE /\ pc' = [pc EXCEPT ![t] = "full_prepare"]
          /\ UNCHANGED <<th, opts, pcm, cfg, ctxArg, result, did, ret>>

\* Lines 401-428: audio, then the engine parameters.
FullPrepare(t) ==
  /\ ~crashed
  /\ UNCHANGED <<pvars, svars>>
  /\ pc[t] = "full_prepare"
  /\ UNCHANGED <<hvars, evars, crashed>>
  /\ \E readOk \in BOOLEAN :
       LET a == resolve_audio(opts[t], readOk) IN
         IF a.err # "none"
           THEN Return(t, a.err, did[t] \cup a.did)
           ELSE /\ did' = [did EXCEPT ![t] = @ \cup a.did]
                /\ pcm' = [pcm EXCEPT ![t] = a.pcm]
                /\ cfg' = [cfg EXCEPT ![t] = engine_config(parse_full_params(opts[t]))]
                /\ pc' = [pc EXCEPT ![t] = "full_lock"]
                /\ opts' = [opts EXCEPT ![t] = NoOptions]
                /\ UNCHANGED <<th, ctxArg, result, ret>>

\* Lines 430-437: the lock_guard, then whisper_full_parallel(handle->ctx, ...).
FullLock(t) ==
  /\ ~crashed
  /\ UNCHANGED <<pvars, svars>>
  /\ pc[t] = "full_lock"
  /\ lock_guard(th[t])
  /\ mutex' = [mutex EXCEPT ![th[t]] = t]
  /\ ctxArg' = [ctxArg EXCEPT ![t] = ctx[th[t]]]
  /\ did' = [did EXCEPT ![t] = @ \cup {"lock", "decode"}]
  /\ pc' = [pc EXCEPT ![t] = "in_decode"]
  /\ UNCHANGED <<th, opts, pcm, cfg, result, ret, obj, ctx, freed, reach, fin,
               evars, crashed>>

\* whisper_full_parallel returns its status.
FullDecodeReturn(t) ==
  /\ ~crashed
  /\ UNCHANGED <<pvars, svars>>
  /\ pc[t] = "in_decode"
  /\ \E status \in Statuses : result' = [result EXCEPT ![t] = status]
  /\ pc' = [pc EXCEPT ![t] = "decoded"]
  /\ UNCHANGED <<th, opts, pcm, cfg, ctxArg, did, ret, hvars, evars, crashed>>

\* Lines 439-443, up to the call of build_segments(env, handle->ctx, ...).
FullAfterDecode(t) ==
  /\ ~crashed
  /\ UNCHANGED <<pvars, svars>>
  /\ pc[t] = "decoded"
  /\ UNCHANGED <<obj, ctx, freed, reach, fin, evars, crashed>>
  /\ IF decode_failed(result[t])
       THEN /\ mutex' = [mutex EXCEPT ![th[t]] = 0]
            /\ Return(t, ErrDecode, did[t])
       ELSE /\ ctxArg' = [ctxArg EXCEPT ![t] = ctx[th[t]]]
            /\ did' = [did EXCEPT ![t] = @ \cup {"accessors"}]
            /\ pc' = [pc EXCEPT ![t] = "in_build"]
            /\ UNCHANGED <<th, opts, pcm, cfg, result, ret, mutex>>

\* build_segments returns the array; the guard's destructor unlocks.
FullBuild(t) ==
  /\ ~crashed
  /\ UNCHANGED <<pvars, svars>>
  /\ pc[t] = "in_build"
  /\ mutex' = [mutex EXCEPT ![th[t]] = 0]
  /\ Return(t, "segments", did[t])
  /\ UNCHANGED <<obj, ctx, freed, reach, fin, evars, crashed>>

\* The engine is entered with a null or released context: undefined
\* behaviour, one of whose outcomes is that the process dies.
EngineFault(t) ==
  /\ ~crashed
  /\ UNCHANGED <<pvars, svars>>
  /\ pc[t] \in {"in_decode", "in_build"}
  /\ ~ValidCtx(ctxArg[t])
  /\ crashed' = TRUE
  /\ UNCHANGED <<tvars, hvars, evars>>

\* -------------------------------------------------------------- finalizer
\* The host stops referencing the External: no call names it any more.
DropRef(h) ==
  /\ ~crashed
  /\ UNCHANGED <<pvars, svars>>
  /\ h \in Callable
  /\ \A t \in Threads : pc[t] = "idle" \/ th[t] # h
  /\ reach' = [reach EXCEPT ![h] = FALSE]
  /\ UNCHANGED <<tvars, obj, ctx, freed, mutex, fin, evars, crashed>>

\* wrap_handle's finalizer, line 206.
FinLock(h) ==
  /\ ~crashed
  /\ UNCHANGED <<pvars, svars>>
  /\ obj[h] = "live" /\ ~reach[h] /\ fin[h] = "none"
  /\ lock_guard(h)
  /\ mutex' = [mutex EXCEPT ![h] = FinalizerThread]
  /\ fin' = [fin EXCEPT ![h] = "locked"]
  /\ UNCHANGED <<tvars, obj, ctx, freed, reach, evars, crashed>>

\* Lines 207-211.
FinRelease(h) ==
  /\ ~crashed
  /\ UNCHANGED <<pvars, svars>>
  /\ fin[h] = "locked"
  /\ LET r == finalizer_release(h)
     IN /\ ctx' = [ctx EXCEPT ![h] = r.ctx]
        /\ freed' = [freed EXCEPT ![h] = r.freed]
        /\ IF r.released THEN WhisperFree(ctx[h]) ELSE UNCHANGED evars
  /\ fin' = [fin EXCEPT ![h] = "released"]
  /\ UNCHANGED <<tvars, obj, mutex, reach, crashed>>

\* Line 212: delete ptr, with the guard still in scope.
FinDelete(h) ==
  /\ ~crashed
  /\ UNCHANGED <<pvars, svars>>
  /\ fin[h] = "released"
  /\ obj' = [obj EXCEPT ![h] = "deleted"]
  /\ fin' = [fin EXCEPT ![h] = "deleted"]
  /\ UNCHANGED <<tvars, ctx, freed, mutex, reach, evars, crashed>>

\* Line 213: the guard's destructor unlocks the mutex of the deleted
\* handle: undefined behaviour, which either goes unnoticed or kills the
\* process.
FinUnlock(h) ==
  /\ ~crashed
  /\ UNCHANGED <<pvars, svars>>
  /\ fin[h] = "deleted"
  /\ \/ /\ mutex' = [mutex EXCEPT ![h] = 0]
        /\ fin' = [fin EXCEPT ![h] = "done"]
        /\ UNCHANGED crashed
     \/ /\ crashed' = TRUE
        /\ UNCHANGED <<mutex, fin>>
  /\ UNCHANGED <<tvars, obj, ctx, freed, reach, evars>>

\* ------------------------------------------------------------------- spec
Next ==
  \/ \E t \in Threads : InitCall(t)
  \/ \E t \in Threads : InitModel(t)
  \/ \E t \in Threads : FullCall(t)
  \/ \E t \in Threads : FullCheck(t)
  \/ \E t \in Threads : FullPrepare(t)
  \/ \E t \in Threads : FullLock(t)
  \/ \E t \in Threads : FullDecodeReturn(t)
  \/ \E t \in Threads : FullAfterDecode(t)
  \/ \E t \in Threads : FullBuild(t)
  \/ \E t \in Threads : EngineFault(t)
  \/ \E t \in Threads : FreeCall(t)
  \/ \E t \in Threads : FreeLock(t)
  \/ \E t \in Threads : FreeRelease(t)
  \/ \E t \in Threads : FreeReturn(t)
  \/ \E h \in Handles : DropRef(h)
  \/ \E h \in Handles : FinLock(h)
  \/ \E h \in Handles : FinRelease(h)
  \/ \E h \in Handles : FinDelete(h)
  \/ \E h \in Handles : FinUnlock(h)

Spec == Init /\ [][Next]_vars

\* ------------------------------------------- option translation on its own
\* One full call on a live handle, followed from its options object to the
\* configuration whisper_full_parallel receives.
ParamInit ==
  /\ InitHandles
  /\ SegOff
  /\ pstage = "input"
  /\ popts \in ParamArgs
  /\ pcfg = NoConfig

\* FullParamConfig cfg = parse_full_params(env, options);
ParamParse ==
  /\ pstage = "input"
  /\ pcfg' = parse_full_params(popts)
  /\ pstage' = "parsed"
  /\ UNCHANGED <<popts, tvars, hvars, evars, crashed, svars>>

\* Lines 418-422: cfg.params.language = cfg.language.c_str().
ParamEngine ==
  /\ pstage = "parsed"
  /\ pcfg' = engine_config(pcfg)
  /\ pstage' = "engine"
  /\ UNCHANGED <<popts, tvars, hvars, evars, crashed, svars>>

ParamNext == ParamParse \/ ParamEngine

ParamSpec == ParamInit /\ [][ParamNext]_vars

\* ================================================================= claims
\* Positions at which a caller holds the lock of the handle it names.
FullLocked == {"in_decode", "decoded", "in_build"}
FreeLocked == {"free_cs", "free_exit"}
FinLocked == {"locked", "released", "deleted"}

\* C1: a full call on a freed handle fails with "Model has been freed": no
\* full call is past its lock acquisition on a handle whose freed flag is
\* set, and the context it hands to whisper_full_parallel and to the
\* accessors of build_segments is a loaded, unreleased one.
C1_FreedHandleNeverDecoded ==
  \A t \in Threads :
    pc[t] \in FullLocked => ~freed[th[t]] /\ ValidCtx(ctxArg[t])

\* C2: per handle at most one thread (callers and finalizer together) is
\* inside a lock-protected section, that thread owns the mutex, and a
\* context on which a decode or result building is running is not released.
C2_MutualExclusion ==
  \A h \in Handles :
    LET inside == {t \in Threads : pc[t] \in FullLocked \cup FreeLocked /\ th[t] = h}
        finalizing == IF fin[h] \in FinLocked THEN 1 ELSE 0
    IN /\ Cardinality(inside) + finalizing <= 1
       /\ \A t \in inside : mutex[h] = t
       /\ finalizing = 1 => mutex[h] = FinalizerThread
       /\ \A t \in inside :
            pc[t] \in FullLocked /\ ctxArg[t] # NULL => engine[ctxArg[t]] = "loaded"

\* C2 witness: a decode is in flight on a handle while a free of the same
\* handle waits for the lock.
C2_Witness ==
  \E t, u \in Threads :
    /\ pc[t] = "in_decode" /\ pc[u] = "free_entry"
    /\ th[t] # NULL /\ th[u] = th[t] /\ mutex[th[t]] = t

\* Positions of a free call on an External, from unwrap_handle to return.
FreePcs == {"free_entry", "free_cs", "free_exit"}

\* A free call on handle h returns from this step.
FreeReturns(t) == pc[t] \in FreePcs /\ th[t] # NULL /\ pc'[t] = "idle"

\* C3: free is idempotent and always succeeds: whisper_free runs at most
\* once per context; every free call on a handle returns undefined, never
\* an error; and no step of a free call that finds the handle already
\* freed changes its freed flag, its context reference or the engine.
C3_FreeIdempotent ==
  /\ [](\A c \in Handles : nfree[c] <= 1)
  /\ [][\A t \in Threads :
          /\ FreeReturns(t) => ret'[t].val = "undefined"
          /\ (pc[t] \in FreePcs /\ th[t] # NULL /\ freed[th[t]] /\ pc'[t] # pc[t])
               => /\ freed'[th[t]] = freed[th[t]]
                  /\ ctx'[th[t]] = ctx[th[t]]
                  /\ engine' = engine /\ nfree' = nfree]_vars

\* C3 witness: a free call has returned normally without calling
\* whisper_free, on the only handle there is, which an earlier call freed.
C3_Witness ==
  \E t \in Threads, h \in Handles :
    /\ ret[t] = [val |-> "undefined", did |-> {"lock"}]
    /\ freed[h] /\ ctx[h] = NULL /\ nfree[h] = 1
    /\ \A g \in Handles \ {h} : obj[g] = "none"

\* C4: whichever of explicit free and the finalizer come first, the context
\* of a handle is never released twice, and it has been released exactly
\* once when the finalizer has run its release block.
C4_ReleasedExactlyOnce ==
  \A h \in Handles :
    /\ nfree[h] <= 1
    /\ fin[h] \in {"released", "deleted", "done"} => nfree[h] = 1

\* C4 witness: the finalizer has completed on a handle that an explicit
\* free had released before.
C4_Witness ==
  \E t \in Threads, h \in Handles :
    /\ fin[h] = "done" /\ nfree[h] = 1
    /\ ret[t] = [val |-> "undefined", did |-> {"lock", "whisper_free"}]
    /\ \A g \in Handles \ {h} : obj[g] = "none"

\* C5: the freed flag of a handle only goes from false to true: no step
\* sets a freed flag back to false.
C5_FreedMonotonic == [][\A h \in Handles : freed[h] => freed'[h]]_vars

\* C5 witness: a handle is freed and later calls have run against it: a
\* full was turned away and a second free returned.
C5_Witness ==
  \E t, u \in Threads, h \in Handles :
    /\ freed[h] /\ \A g \in Handles \ {h} : obj[g] = "none"
    /\ ret[t].val = ErrFreed
    /\ ret[u] = [val |-> "undefined", did |-> {"lock"}]

\* While the process runs, a caller waiting for the lock of handle h gets
\* it whenever h's own mutex is unlocked, whatever the state of the other
\* handles.
NoCrossBlocking ==
  \A t \in Threads :
    /\ (~crashed /\ pc[t] = "full_lock" /\ mutex[th[t]] = 0)
         => ENABLED FullLock(t)
    /\ (~crashed /\ pc[t] = "free_entry" /\ th[t] # NULL /\ mutex[th[t]] = 0)
         => ENABLED FreeLock(t)

HandleUnchanged(b) ==
  freed'[b] = freed[b] /\ ctx'[b] = ctx[b] /\ mutex'[b] = mutex[b]

\* A step of a call on handle A, or of A's finalizer, leaves every other
\* handle as it was.
NoCrossEffect ==
  /\ \A t \in Threads, b \in Handles :
       (pc'[t] # pc[t] /\ th[t] # NULL /\ th[t] # b) => HandleUnchanged(b)
  /\ \A a, b \in Handles :
       (fin'[a] # fin[a] /\ a # b) => HandleUnchanged(b)

\* C6: operations on different handles never contend: a full or free call
\* on handle B is never kept waiting by a lock held on another handle A,
\* and no operation on A changes B's freed flag, context reference or lock.
C6_HandlesIndependent == []NoCrossBlocking /\ [][NoCrossEffect]_vars

\* C6 witness: a decode holds the lock of one handle while a free holds the
\* lock of another.
C6_Witness ==
  \E t, u \in Threads :
    /\ pc[t] = "in_decode" /\ pc[u] = "free_cs"
    /\ th[t] # th[u] /\ mutex[th[t]] = t /\ mutex[th[u]] = u

\* The options hold neither a non-empty audio buffer nor a fname_inp string.
NoAudioSupplied(o) ==
  /\ ~(o.audio.t = "typedarray" /\ o.audio.n > 0)
  /\ o.fname_inp.t # "string"

\* C7: a full call that passed the freed check and whose options hold
\* neither a non-empty audio buffer nor a fname_inp string ends with "No
\* audio provided", having invoked no engine primitive and not taken the
\* lock, and leaves every handle and the engine as they were.
C7_NoAudioFailsEarly ==
  [][\A t \in Threads :
       (pc[t] = "full_prepare" /\ NoAudioSupplied(opts[t]) /\ pc'[t] # pc[t])
         => /\ pc'[t] = "idle"
            /\ ret'[t] = [val |-> ErrNoAudio, did |-> {}]
            /\ UNCHANGED <<obj, ctx, freed, mutex, engine, nfree>>]_vars

\* C7 witness: "No audio provided" was returned for a handle that is live.
C7_Witness ==
  \E t \in Threads, h \in Handles :
    /\ ret[t].val = ErrNoAudio
    /\ ~freed[h] /\ ValidCtx(ctx[h])
    /\ \A g \in Handles \ {h} : obj[g] = "none"

\* C8: when whisper_full_parallel returns a non-zero status, the call ends
\* with the decoding-failure error without having run build_segments, the
\* lock is released, and the handle's freed flag and context and the
\* engine are as they were.
C8_DecodeFailureSurfaced ==
  [][\A t \in Threads :
       (pc[t] = "decoded" /\ result[t] # 0 /\ pc'[t] # pc[t])
         => /\ pc'[t] = "idle"
            /\ ret'[t].val = ErrDecode
            /\ "accessors" \notin ret'[t].did
            /\ mutex'[th[t]] = 0
            /\ UNCHANGED <<obj, ctx, freed, engine, nfree>>]_vars

\* C8 witness: a decode failed with a positive status on a handle that is
\* still live and unlocked afterwards.
C8_Witness ==
  \E t \in Threads, h \in Handles :
    /\ ret[t].val = ErrDecode
    /\ ~freed[h] /\ ValidCtx(ctx[h]) /\ mutex[h] = 0
    /\ \A g \in Handles \ {h} : obj[g] = "none"

\* C9: init with 'model' missing or not a string throws a caller error
\* without loading a model or creating a handle; a failed load throws the
\* engine error and creates no handle; a handle appears only with a
\* successful load of a string-named model and is then live.
C9_InitOutcomes ==
  [][\A t \in Threads :
       (pc[t] = "init" /\ pc'[t] = "idle")
         => /\ opts[t].model.t # "string"
                 => /\ ret'[t].val \in CallerErrors
                    /\ "load" \notin ret'[t].did
                    /\ obj' = obj /\ engine' = engine
            /\ ret'[t].val = ErrInit
                 => /\ ErrInit \notin CallerErrors
                    /\ "load" \in ret'[t].did
                    /\ obj' = obj /\ engine' = engine
            /\ (obj' # obj) = (ret'[t].val = "handle")
            /\ \A h \in Handles :
                 obj'[h] # obj[h]
                   => /\ opts[t].model.t = "string"
                      /\ obj[h] = "none" /\ obj'[h] = "live"
                      /\ ~freed'[h] /\ ctx'[h] # NULL
                      /\ engine[ctx'[h]] = "unloaded"
                      /\ engine'[ctx'[h]] = "loaded"]_vars

\* C9 witness: one init was refused for its 'model', another produced a
\* live handle.
C9_Witness ==
  \E t, u \in Threads, h \in Handles :
    /\ ret[t].val = ErrModel
    /\ ret[u] = [val |-> "handle", did |-> {"load"}]
    /\ obj[h] = "live" /\ ~freed[h] /\ ValidCtx(ctx[h])

\* C10: the language handed to whisper_full_parallel (params.language) is
\* never empty: it is "auto" when the language option is absent, not a
\* string or the empty string, and the supplied string otherwise.
C10_LanguageNeverEmpty ==
  pstage = "engine"
    => /\ pcfg.params_language # <<>>
       /\ pcfg.params_language =
            IF popts.language.t = "string" /\ popts.language.s # <<>>
              THEN popts.language.s ELSE AUTO

\* C11: with a beam_size above 1 the final strategy is beam search whatever
\* strategy was supplied; with beam_size absent or at most 1 it is the
\* supplied strategy, or greedy when none was supplied.
C11_BeamForcesBeamSearch ==
  pstage \in {"parsed", "engine"}
    => pcfg.strategy =
         IF popts.beam_size.t = "number" /\ popts.beam_size.n > 1
           THEN BEAM_SEARCH
         ELSE IF popts.strategy.t = "number" THEN popts.strategy.n
         ELSE GREEDY

\* C11 witness: beam_size 2 with an explicit greedy strategy came out as
\* beam search.
C11_Witness ==
  /\ pstage = "engine"
  /\ popts.beam_size = Num(2) /\ popts.strategy = Num(GREEDY)
  /\ pcfg.strategy = BEAM_SEARCH

\* C12 as stated: with initial_prompt absent and prompt a string s the
\* initial prompt is s; with both supplied as strings it is initial_prompt's
\* value, whatever prompt is.
C12_InitialPromptWins ==
  pstage \in {"parsed", "engine"}
    => /\ (popts.initial_prompt.t = "absent" /\ popts.prompt.t = "string")
            => pcfg.initial_prompt = popts.prompt.s
       /\ (popts.initial_prompt.t = "string" /\ popts.prompt.t = "string")
            => pcfg.initial_prompt = popts.initial_prompt.s

\* C12 amended: with initial_prompt absent and prompt a string s the initial
\* prompt is s; with prompt supplied and initial_prompt a non-empty string
\* it is initial_prompt's value, whatever prompt is.
C12_NonEmptyInitialPromptWins ==
  pstage \in {"parsed", "engine"}
    => /\ (popts.initial_prompt.t = "absent" /\ popts.prompt.t = "string")
            => pcfg.initial_prompt = popts.prompt.s
       /\ (popts.initial_prompt.t = "string" /\ popts.initial_prompt.s # <<>>
           /\ popts.prompt.t # "absent")
            => pcfg.initial_prompt = popts.initial_prompt.s

\* C12 witness: both were supplied and initial_prompt came through.
C12_Witness ==
  /\ pstage = "engine"
  /\ popts.initial_prompt = Str(<<"i">>) /\ popts.prompt = Str(<<"p">>)
  /\ pcfg.initial_prompt = <<"i">>

\* The tokens of the segment at hand that count towards its confidence.
Qualifies(token) == token.id <= EOT
Qualifying == SelectSeq(etokens, Qualifies)

RECURSIVE SumP(_)
SumP(toks) == IF toks = <<>> THEN 0 ELSE toks[1].p + SumP(Tail(toks))
MinP(toks) == CHOOSE p \in Probs :
  /\ \E j \in 1..Len(toks) : toks[j].p = p
  /\ \A j \in 1..Len(toks) : p <= toks[j].p
MaxP(toks) == CHOOSE p \in Probs :
  /\ \E j \in 1..Len(toks) : toks[j].p = p
  /\ \A j \in 1..Len(toks) : p >= toks[j].p

\* What the confidence of a segment with qualifying tokens q is to be.
TrimmedMean(q) ==
  IF Len(q) > 2 THEN Quotient(SumP(q) - MinP(q) - MaxP(q), Len(q) - 2)
  ELSE IF Len(q) > 0 THEN Quotient(SumP(q), Len(q))
  ELSE Quotient(0, 1)

SameQuotient(a, b) == a.num * b.den = b.num * a.den

\* The object of a detailed segment has just been built.
DetailedSegmentBuilt == sstage = "store" /\ scfg.detailed

\* C13: the confidence of a detailed segment is (sum - min - max)/(count - 2)
\* over its qualifying tokens (id at or below end-of-text) when more than
\* two qualify, their mean when one or two qualify, and 0 when none does;
\* the other tokens are in the token list and do not change the confidence.
C13_TrimmedMeanConfidence ==
  DetailedSegmentBuilt
    => /\ "confidence" \in jsSegment.set /\ "tokens" \in jsSegment.set
       /\ jsSegment.tokens = etokens
       /\ SameQuotient(jsSegment.confidence, TrimmedMean(Qualifying))

\* C13 witness: a segment with more than two qualifying tokens of differing
\* probability and a non-qualifying token of non-zero probability was built.
C13_Witness ==
  /\ DetailedSegmentBuilt
  /\ Len(Qualifying) > 2
  /\ MinP(Qualifying) < MaxP(Qualifying)
  /\ \E j \in 1..Len(etokens) : etokens[j].id > EOT /\ etokens[j].p > 0
  /\ Len(jsSegment.tokens) = Len(etokens)
  /\ SameQuotient(jsSegment.confidence, TrimmedMean(Qualifying))

\* The format option is a string that equals "detail" when case is ignored.
EqualsIgnoringCase(a, b) ==
  /\ Len(a) = Len(b)
  /\ \A j \in 1..Len(a) :
       \/ a[j] = b[j]
       \/ \E k \in 1..Len(UpperCase) :
            {a[j], b[j]} = {UpperCase[k], LowerCase[k]}
FormatIsDetail ==
  sopts.format.t = "string" /\ EqualsIgnoringCase(sopts.format.s, DETAIL)

DetailFields == {"lang", "confidence", "tokens"}

\* C14: detailed output is enabled exactly when format is a string equal to
\* "detail" with case ignored; every segment returned carries lang,
\* confidence and tokens when it is enabled and none of them when it is not.
C14_DetailedIffFormatDetail ==
  sstage \in {"loop", "emit", "store", "returned"}
    => /\ scfg.detailed <=> FormatIsDetail
       /\ \A j \in 1..Len(segments) :
            IF FormatIsDetail THEN DetailFields \subseteq segments[j]
            ELSE DetailFields \cap segments[j] = {}
       /\ sstage = "returned" => Len(segments) = n_segments

\* C14 witness: a mixed-case "detail" produced a full result of detailed
\* segments.
C14_Witness ==
  /\ sstage = "returned"
  /\ sopts.format = Str(<<"D", "e", "t", "a", "i", "L">>)
  /\ n_segments = MaxSegments
  /\ \A j \in 1..Len(segments) : DetailFields \subseteq segments[j]
  /\ Len(segments) = n_segments

\* C15: every read and write of ctx and freed by full, free and the
\* finalizer happens with the handle's lock held by the acting thread: a
\* full call about to test freed and ctx (line 397), one that has read ctx
\* for the decode or is about to read it for build_segments, a free call
\* about to test and clear them, and the finalizer about to do the same all
\* own the mutex.
C15_AccessesUnderLock ==
  /\ \A t \in Threads :
       th[t] # NULL
         => /\ (pc[t] = "full_entry" /\ opts[t].obj) => mutex[th[t]] = t
            /\ pc[t] \in {"in_decode", "decoded", "free_cs"} => mutex[th[t]] = t
  /\ \A h \in Handles : fin[h] = "locked" => mutex[h] = FinalizerThread

\* An audio buffer is supplied in the options.
BufferSupplied(o) == Has(o, "audio") /\ IsTypedArray(o.audio)

\* The primitives t's call has invoked once this step is taken.
DidAfter(t) == IF pc'[t] = "idle" THEN ret'[t].did ELSE did'[t]

\* C16: in the audio step of full, a supplied buffer takes precedence over
\* fname_inp: with a buffer supplied the file is not read and the decode
\* gets the buffer; and a failed file read ends the call with "Failed to
\* read input audio file" with no lock taken and no decode called.
C16_BufferPrecedence ==
  [][\A t \in Threads :
       (pc[t] = "full_prepare" /\ pc'[t] # "full_prepare")
         => /\ BufferSupplied(opts[t])
                 => /\ "read_audio" \notin DidAfter(t)
                    /\ pc'[t] = "full_lock" => pcm'[t] = "buffer"
            /\ (pc'[t] = "idle" /\ ret'[t].val = ErrRead)
                 => DidAfter(t) \cap {"lock", "decode"} = {}]_vars

FullPcs ==
  {"full_entry", "full_prepare", "full_lock", "in_decode", "decoded", "in_build"}

\* The steps of a call in flight, and of the finalizer of h.
CallerStep(t) ==
  \/ InitModel(t) \/ FullCheck(t) \/ FullPrepare(t) \/ FullLock(t)
  \/ FullDecodeReturn(t) \/ FullAfterDecode(t) \/ FullBuild(t)
  \/ FreeLock(t) \/ FreeRelease(t) \/ FreeReturn(t)
FinStep(h) == FinLock(h) \/ FinRelease(h) \/ FinDelete(h) \/ FinUnlock(h)

\* t waits for the lock of its handle, whose holder can take a step.
WaitsOnRunnableHolder(t) ==
  /\ pc[t] \in {"full_lock", "free_entry"} /\ th[t] # NULL
  /\ mutex[th[t]] # 0
  /\ IF mutex[th[t]] = FinalizerThread THEN ENABLED FinStep(th[t])
     ELSE ENABLED CallerStep(mutex[th[t]])

\* C17: every full and free call eventually returns and none deadlocks: a
\* call in flight can always take its next step, or waits for a lock whose
\* holder can take one.  (A call for which neither holds never returns,
\* however the threads are scheduled.)
C17_CallsCanReturn ==
  \A t \in Threads :
    pc[t] \in FullPcs \cup FreePcs
      => ENABLED CallerStep(t) \/ WaitsOnRunnableHolder(t)

\* C18: whenever no thread holds the lock of an existing handle, its freed
\* flag is set exactly when its context reference is null.
C18_FreedIffNullContext ==
  \A h \in Handles :
    (obj[h] = "live" /\ mutex[h] = 0) => (freed[h] <=> ctx[h] = NULL)

\* C18 witness: both kinds of handle exist unlocked, a freed one without a
\* context and a live one with its context.
C18_Witness ==
  \E g, h \in Handles :
    /\ obj[g] = "live" /\ mutex[g] = 0 /\ freed[g] /\ ctx[g] = NULL
    /\ obj[h] = "live" /\ mutex[h] = 0 /\ ~freed[h] /\ ctx[h] # NULL
    /\ \E t \in Threads : "whisper_free" \in ret[t].did

\* C19: the finalizer does not touch the handle after destroying it: once
\* the WhisperHandle is deleted its mutex has been released and no step
\* changes its mutex, context reference or freed flag.
C19_NoAccessAfterDelete ==
  /\ [](\A h \in Handles : obj[h] = "deleted" => mutex[h] = 0)
  /\ [][\A h \in Handles :
          obj[h] = "deleted"
            => mutex'[h] = mutex[h] /\ ctx'[h] = ctx[h] /\ freed'[h] = freed[h]]_vars

====
